---- MODULE Spec2Model ----
(***************************************************************************)
(* AgentFabric AutoAssist: the agent orchestrator (app/agent.py), the LLM  *)
(* adapters with their retry loop and the adapter factory                  *)
(* (app/llm_adapter.py), and the metrics collector (app/observability.py). *)
(*                                                                         *)
(* Strings that are measured or stripped (queries, generated texts) are    *)
(* run-length encoded: a sequence of runs [ch, n], n >= 1, adjacent runs   *)
(* of different characters.  len() and str.strip() are computed on that    *)
(* encoding.  Other strings (model names, endpoints, messages) are TLA+    *)
(* strings.  Python's None is the marker None.                             *)
(***************************************************************************)
EXTENDS Integers, Sequences, FiniteSets, TLC

VARIABLES
    config,       \* LLMConfig handed to the agent
    agent,        \* "unconstructed" | "ready" | "construct_failed"
    adapter,      \* the adapter object held by the agent (NoAdapter if none)
    init_error,   \* exception raised by AutoAssistAgent.__init__ (NoException if none)
    pc,           \* pc[c]: position of process_query call c
    user_query,   \* user_query[c]: argument of call c
    full_prompt,  \* full_prompt[c]: local of process_query
    attempt,      \* attempt[c]: loop variable of generate (0-based)
    last_error,   \* last_error[c]: local of generate
    generated,    \* generated[c]: what generate returned or raised to process_query
    result,       \* result[c]: dict returned by process_query
    escaped,      \* escaped[c]: exception that left process_query (NoException if none)
    now,          \* now[c]: seconds slept so far in call c (earliest wake-up)
    trace,        \* trace[c]: observed events of call c (posts, failures, logs, sleeps)
    requests,     \* requests[c]: the HTTP requests call c has sent, in order
    responses,    \* responses[c]: what the backend did with each of them, in order
    metrics,      \* MetricsCollector fields
    rr,           \* rr[t]: position and locals of record_request call of caller t
    recorded,     \* arguments of the completed and started record_request calls
    snapshot,     \* last value returned by get_metrics, with the calls it followed
    exported,     \* last text returned by get_prometheus_format, with the state it read
    app,          \* the FastAPI application: "starting" | "serving" | "startup_failed"
    validated,    \* what agent.validate_config returned to the startup handler
    chat,         \* chat[c]: position of the /chat handler of request c
    raw_query,    \* raw_query[c]: request.query of request c
    http,         \* http[c]: the HTTP response of request c
    handled       \* the requests the /chat handler has answered, in order

vars == <<config, agent, adapter, init_error, pc, user_query, full_prompt,
          attempt, last_error, generated, result, escaped, now, trace,
          requests, responses, metrics, rr, recorded, snapshot, exported,
          app, validated, chat, raw_query, http, handled>>

agentVars   == <<config, agent, adapter, init_error>>
callVars    == <<pc, user_query, full_prompt, attempt, last_error, generated,
                 result, escaped, now, trace, requests, responses>>
metricsVars == <<metrics, rr, recorded, snapshot, exported>>
appVars     == <<app, validated, chat, raw_query, http, handled>>

-----------------------------------------------------------------------------
(* Bounds of the explored inputs *)

MaxQueryRuns == 2     \* short queries: up to this many one-character runs
MaxTextRuns  == 2     \* generated texts: up to this many one-character runs
MaxRecords   == 3     \* record_request calls in one behaviour

(* Program constants *)

MaxQueryLength == 1000

None == "__None__"

-----------------------------------------------------------------------------
(* Run-length encoded strings *)

Chars      == {"a", " "}
Whitespace == {" "}

Run(ch, n) == [ch |-> ch, n |-> n]

Repeat(ch, n) == IF n = 0 THEN << >> ELSE << Run(ch, n) >>

RECURSIVE StrLen(_)
StrLen(s) == IF s = << >> THEN 0 ELSE Head(s).n + StrLen(Tail(s))

RECURSIVE LStrip(_)
LStrip(s) ==
    IF s = << >> THEN << >>
    ELSE IF Head(s).ch \in Whitespace THEN LStrip(Tail(s)) ELSE s

RECURSIVE RStrip(_)
RStrip(s) ==
    IF s = << >> THEN << >>
    ELSE IF s[Len(s)].ch \in Whitespace THEN RStrip(SubSeq(s, 1, Len(s) - 1)) ELSE s

Strip(s) == RStrip(LStrip(s))

Truthy(s) == StrLen(s) > 0

\* strings of at most k runs of one character each, adjacent runs different
ShortStrs(k) ==
    { s \in UNION { [1..n -> { Run(ch, 1) : ch \in Chars }] : n \in 0..k } :
        \A i \in 1..(Len(s) - 1) : s[i].ch # s[i + 1].ch }

-----------------------------------------------------------------------------
(* Configuration: app/config.py LLMConfig *)

DefaultTemperatureTenths == 7
DefaultMaxTokens         == 1024
DefaultTimeoutSeconds    == 30

Providers  == {"local", "api", "azure"}
ModelNames == {"mistral", ""}
Endpoints  == {None, "http://llm:1234/v1"}
Tokens     == {None, "secret-token"}

LLMConfig ==
    [provider : Providers, model_name : ModelNames, api_endpoint : Endpoints,
     api_token : Tokens, temperature : {DefaultTemperatureTenths},
     max_tokens : {DefaultMaxTokens}, timeout_seconds : {DefaultTimeoutSeconds}]

\* Python truthiness of an Optional[str]
Falsy(x) == x \in {None, ""}

-----------------------------------------------------------------------------
(* Exceptions.  str(e) of an exception is the sequence of the parts its     *)
(* message was formatted from.                                             *)

NoError == [type |-> "None", status |-> 0, str |-> ""]

HTTPStatusError(status) ==
    [type |-> "HTTPStatusError", status |-> status, str |-> "HTTP " \o ToString(status)]
ConnectError    == [type |-> "ConnectError", status |-> 0, str |-> "All connection attempts failed"]
ReadTimeout     == [type |-> "ReadTimeout", status |-> 0, str |-> "timed out"]
InvalidURL      == [type |-> "UnsupportedProtocol", status |-> 0, str |-> "missing url"]
JSONDecodeError == [type |-> "JSONDecodeError", status |-> 0, str |-> "Expecting value"]
IndexError      == [type |-> "IndexError", status |-> 0, str |-> "list index out of range"]

NoException == [type |-> "None", msg |-> << >>, cause |-> NoError]

ValueError(msg)   == [type |-> "ValueError", msg |-> msg, cause |-> NoError]
RuntimeError(msg) == [type |-> "RuntimeError", msg |-> msg, cause |-> NoError]

\* RuntimeError(f"{name} LLM generation failed after {max_retries} attempts: {str(last_error)}")
ExhaustedError(name, max_retries, err) ==
    [type  |-> "RuntimeError",
     msg   |-> << name \o " LLM generation failed after ", ToString(max_retries),
                  " attempts: ", err.str >>,
     cause |-> err]

-----------------------------------------------------------------------------
(* Adapter factory: LLMAdapterFactory.create_adapter and the constructors  *)

NoAdapter == [kind |-> "none", endpoint |-> None, max_retries |-> 0, retry_delay |-> 0]

LocalLLMAdapter(cfg) ==
    [kind        |-> "LocalLLMAdapter",
     endpoint    |-> IF Falsy(cfg.api_endpoint) THEN "http://localhost:1234/v1"
                     ELSE cfg.api_endpoint,
     max_retries |-> 3,
     retry_delay |-> 1]

APILLMAdapter(cfg) ==
    [kind        |-> "APILLMAdapter",
     endpoint    |-> cfg.api_endpoint,
     max_retries |-> 3,
     retry_delay |-> 1]

\* variant: an unknown provider falls back to the local adapter
create_adapter_DefaultsToLocal(cfg) ==
    IF cfg.provider = "api"
    THEN [adapter |-> APILLMAdapter(cfg), raised |-> NoException]
    ELSE [adapter |-> LocalLLMAdapter(cfg), raised |-> NoException]

\* [adapter, raised]: the returned object, or the exception raised instead
create_adapter(cfg) ==
    IF cfg.provider = "local"
    THEN [adapter |-> LocalLLMAdapter(cfg), raised |-> NoException]
    ELSE IF cfg.provider = "api"
    THEN [adapter |-> APILLMAdapter(cfg), raised |-> NoException]
    ELSE [adapter |-> NoAdapter,
          raised  |-> ValueError(<< "Unknown LLM provider: ", cfg.provider >>)]

-----------------------------------------------------------------------------
(* The backend, as one attempt sees it *)

StatusCodes == {200, 404, 500}
Texts       == ShortStrs(MaxTextRuns)

NoChoice == [has_text |-> FALSE, text |-> << >>]
NoBody   == [valid_json |-> FALSE, has_choices |-> FALSE, choices |-> << >>]

\* response bodies: not JSON; {}; {"choices": []}; {"choices": [{}]};
\* {"choices": [{"text": t}]}
Bodies ==
    { NoBody,
      [valid_json |-> TRUE, has_choices |-> FALSE, choices |-> << >>],
      [valid_json |-> TRUE, has_choices |-> TRUE, choices |-> << >>],
      [valid_json |-> TRUE, has_choices |-> TRUE, choices |-> << NoChoice >>] }
    \cup { [valid_json |-> TRUE, has_choices |-> TRUE,
            choices |-> << [has_text |-> TRUE, text |-> t] >>] : t \in Texts }

Response(status, body) == [kind |-> "response", status |-> status, body |-> body]

\* what client.post can do for a request to url
Outcomes(url) ==
    IF Falsy(url)
    THEN { [kind |-> "invalid_url", status |-> 0, body |-> NoBody] }
    ELSE { Response(200, b) : b \in Bodies }
         \cup { Response(st, NoBody) : st \in StatusCodes \ {200} }
         \cup { [kind |-> k, status |-> 0, body |-> NoBody] :
                  k \in {"connect_error", "timeout"} }

\* variant: the text is returned as the backend sent it
ExtractText_KeepsWhitespace(body) ==
    LET choices == IF body.has_choices THEN body.choices ELSE << NoChoice >>
    IN  IF Len(choices) = 0
        THEN [ok |-> FALSE, value |-> << >>, error |-> IndexError]
        ELSE LET text == IF choices[1].has_text THEN choices[1].text ELSE << >>
             IN  [ok |-> TRUE, value |-> text, error |-> NoError]

\* data.get("choices", [{}])[0].get("text", "").strip()
ExtractText(body) ==
    LET choices == IF body.has_choices THEN body.choices ELSE << NoChoice >>
    IN  IF Len(choices) = 0
        THEN [ok |-> FALSE, value |-> << >>, error |-> IndexError]
        ELSE LET text == IF choices[1].has_text THEN choices[1].text ELSE << >>
             IN  [ok |-> TRUE, value |-> Strip(text), error |-> NoError]

\* the body of the try block from client.post on: the returned text, or the
\* exception raised
AttemptResult(o) ==
    IF o.kind = "connect_error" THEN [ok |-> FALSE, value |-> << >>, error |-> ConnectError]
    ELSE IF o.kind = "timeout" THEN [ok |-> FALSE, value |-> << >>, error |-> ReadTimeout]
    ELSE IF o.kind = "invalid_url" THEN [ok |-> FALSE, value |-> << >>, error |-> InvalidURL]
    ELSE IF o.status >= 400
    THEN [ok |-> FALSE, value |-> << >>, error |-> HTTPStatusError(o.status)]
    ELSE IF ~o.body.valid_json
    THEN [ok |-> FALSE, value |-> << >>, error |-> JSONDecodeError]
    ELSE ExtractText(o.body)

-----------------------------------------------------------------------------
(* Adapter: the request of one attempt *)

\* variant: the remote adapter sends the content type as well
BuildHeaders_AlwaysContentType(ad, cfg) ==
    { << "Content-Type", << "application/json" >> >> }
    \cup
    (IF ~Falsy(cfg.api_token)
     THEN { << "Authorization", << "Bearer ", cfg.api_token >> >> } ELSE { })

BuildHeaders(ad, cfg) ==
    (IF ad.kind = "LocalLLMAdapter"
     THEN { << "Content-Type", << "application/json" >> >> } ELSE { })
    \cup
    (IF ~Falsy(cfg.api_token)
     THEN { << "Authorization", << "Bearer ", cfg.api_token >> >> } ELSE { })

\* variant: both adapters append the completions path
RequestUrl_AppendsPathForBoth(ad, cfg) ==
    IF ad.kind = "LocalLLMAdapter" THEN << ad.endpoint, "/completions" >>
    ELSE << cfg.api_endpoint, "/completions" >>

RequestUrl(ad, cfg) ==
    IF ad.kind = "LocalLLMAdapter" THEN << ad.endpoint, "/completions" >>
    ELSE << cfg.api_endpoint >>

\* the endpoint the request goes to decides whether a request can be made
TargetEndpoint(ad, cfg) ==
    IF ad.kind = "LocalLLMAdapter" THEN ad.endpoint ELSE cfg.api_endpoint

BuildRequest(ad, cfg, prompt) ==
    [url     |-> RequestUrl(ad, cfg),
     headers |-> BuildHeaders(ad, cfg),
     timeout |-> cfg.timeout_seconds,
     json    |-> [model |-> cfg.model_name, prompt |-> prompt,
                  temperature |-> cfg.temperature, max_tokens |-> cfg.max_tokens]]

AdapterName(ad) == IF ad.kind = "LocalLLMAdapter" THEN "Local" ELSE "API"

\* variant: the delay is computed from the 0-based attempt index
BackoffDelay_ZeroBased(ad, att) == ad.retry_delay * att

\* asyncio.sleep(self.retry_delay * (attempt + 1))
BackoffDelay(ad, att) == ad.retry_delay * (att + 1)

\* variant: a failed attempt is never retried
MayRetry_Never(ad, att) == FALSE

\* variant: the last attempt also waits and retries
MayRetry_Always(ad, att) == att < ad.max_retries

\* if attempt < self.max_retries - 1
MayRetry(ad, att) == att < ad.max_retries - 1

\* only the local adapter prints the failed attempt
LogsFailure(ad) == ad.kind = "LocalLLMAdapter"

-----------------------------------------------------------------------------
(* Agent: prompt and result dicts *)

SYSTEM_PROMPT == "You are AutoAssist, an automotive support agent ..."

\* variant: the query is sent as it is
construct_prompt_BareQuery(q) == << q >>

construct_prompt(q) ==
    << SYSTEM_PROMPT, "\n\nUser Query: ", q,
       "\n\nProvide a helpful, safety-first response:" >>

SuccessResult(q, text, cfg) ==
    [status |-> "success", query |-> q, response |-> text, model |-> cfg.model_name]

\* variant: the error dict carries an empty response as well
ErrorResult_WithResponse(q, e, cfg) ==
    [status |-> "error", query |-> q, response |-> << >>, error |-> e.msg,
     model |-> cfg.model_name]

ErrorResult(q, e, cfg) ==
    [status |-> "error", query |-> q, error |-> e.msg, model |-> cfg.model_name]

NoResult == [status |-> "none"]

\* except Exception: every exception class raised here derives from Exception
ExceptionClasses == {"ValueError", "RuntimeError"}

\* variant: except ValueError
Catches_OnlyValueError(e) == e.type = "ValueError"

Catches(e) == e.type \in ExceptionClasses

\* variant: both violations raise the same message
ValidationError_OneMessage(q) ==
    IF ~Truthy(q) \/ StrLen(q) > 1000
    THEN ValueError(<< "Invalid query: must be non-empty string" >>)
    ELSE NoException

\* variant: the length limit excludes 1000 itself
ValidationError_RejectsAtLimit(q) ==
    IF ~Truthy(q) THEN ValueError(<< "Invalid query: must be non-empty string" >>)
    ELSE IF StrLen(q) >= 1000
    THEN ValueError(<< "Query too long: maximum 1000 characters" >>)
    ELSE NoException

\* variant: the length limit lets 1001 through
ValidationError_OffByOne(q) ==
    IF ~Truthy(q) THEN ValueError(<< "Invalid query: must be non-empty string" >>)
    ELSE IF StrLen(q) > 1001
    THEN ValueError(<< "Query too long: maximum 1000 characters" >>)
    ELSE NoException

\* STEP 1 of process_query: the exception validation raises, if any
ValidationError(q) ==
    IF ~Truthy(q) THEN ValueError(<< "Invalid query: must be non-empty string" >>)
    ELSE IF StrLen(q) > 1000
    THEN ValueError(<< "Query too long: maximum 1000 characters" >>)
    ELSE NoException

\* variant: the empty response is not checked
ResponseError_AcceptsEmpty(text) == NoException

\* STEP 4 of process_query: the exception response validation raises, if any
ResponseError(text) ==
    IF ~Truthy(text) THEN RuntimeError(<< "Empty response from LLM" >>) ELSE NoException

-----------------------------------------------------------------------------
(* Calls of process_query *)

CallIds == {1}

Queries ==
    ShortStrs(MaxQueryRuns)
    \cup { Repeat("a", n) : n \in {MaxQueryLength, MaxQueryLength + 1} }

NoGenerated == [kind |-> "none", value |-> << >>, exc |-> NoException]

Event(ev, att, t, cause, d) ==
    [ev |-> ev, attempt |-> att, t |-> t, cause |-> cause, d |-> d]

\* variant: only the first error is kept
NextLastError_KeepsFirst(old, e) == IF old = NoError THEN e ELSE old

\* last_error = e
NextLastError(old, e) == e

InitAgent ==
    /\ agent = "unconstructed"
    /\ adapter = NoAdapter
    /\ init_error = NoException

InitCalls ==
    /\ pc = [c \in CallIds |-> "idle"]
    /\ user_query = [c \in CallIds |-> << >>]
    /\ full_prompt = [c \in CallIds |-> << >>]
    /\ attempt = [c \in CallIds |-> 0]
    /\ last_error = [c \in CallIds |-> NoError]
    /\ generated = [c \in CallIds |-> NoGenerated]
    /\ result = [c \in CallIds |-> NoResult]
    /\ escaped = [c \in CallIds |-> NoException]
    /\ now = [c \in CallIds |-> 0]
    /\ trace = [c \in CallIds |-> << >>]
    /\ requests = [c \in CallIds |-> << >>]
    /\ responses = [c \in CallIds |-> << >>]

\* AutoAssistAgent.__init__
ConstructAgent ==
    /\ agent = "unconstructed"
    /\ LET r == create_adapter(config)
       IN  /\ adapter' = r.adapter
           /\ init_error' = r.raised
           /\ agent' = IF r.raised = NoException THEN "ready" ELSE "construct_failed"
    /\ UNCHANGED <<appVars, config, callVars, metricsVars>>

\* the except clause of process_query for exception e; a caught exception ends
\* the call in state terminal
Except(c, e, terminal) ==
    IF Catches(e)
    THEN /\ result' = [result EXCEPT ![c] = ErrorResult(user_query[c], e, config)]
         /\ pc' = [pc EXCEPT ![c] = terminal]
         /\ UNCHANGED escaped
    ELSE /\ escaped' = [escaped EXCEPT ![c] = e]
         /\ pc' = [pc EXCEPT ![c] = "crashed"]
         /\ UNCHANGED result

\* process_query is called with query q
StartProcess(c, q) ==
    /\ agent = "ready"
    /\ pc[c] = "idle"
    /\ pc' = [pc EXCEPT ![c] = "validating"]
    /\ user_query' = [user_query EXCEPT ![c] = q]
    /\ UNCHANGED <<appVars, agentVars, metricsVars, full_prompt, attempt, last_error,
                   generated, result, escaped, now, trace, requests, responses>>

\* STEP 1: input validation
Validate(c) ==
    /\ pc[c] = "validating"
    /\ LET e == ValidationError(user_query[c])
       IN  IF e = NoException
           THEN /\ pc' = [pc EXCEPT ![c] = "prompting"]
                /\ UNCHANGED <<result, escaped>>
           ELSE Except(c, e, "rejected")
    /\ UNCHANGED <<appVars, agentVars, metricsVars, user_query, full_prompt, attempt,
                   last_error, generated, now, trace, requests, responses>>

\* STEP 2 and the call of generate: last_error = None, first loop iteration
Prompt(c) ==
    /\ pc[c] = "prompting"
    /\ full_prompt' = [full_prompt EXCEPT ![c] = construct_prompt(user_query[c])]
    /\ attempt' = [attempt EXCEPT ![c] = 0]
    /\ last_error' = [last_error EXCEPT ![c] = NoError]
    /\ pc' = [pc EXCEPT ![c] = "generating"]
    /\ UNCHANGED <<appVars, agentVars, metricsVars, user_query, generated, result,
                   escaped, now, trace, requests, responses>>

\* variant: a blocking client, no request is sent while another call waits
SendRequest_Blocking(c) ==
    /\ pc[c] = "generating"
    /\ \A d \in DOMAIN pc : d # c => pc[d] \notin {"awaiting", "backoff"}
    /\ requests' = [requests EXCEPT
                      ![c] = Append(@, BuildRequest(adapter, config, full_prompt[c]))]
    /\ trace' = [trace EXCEPT
                   ![c] = Append(@, Event("post", attempt[c] + 1, now[c], NoError, 0))]
    /\ pc' = [pc EXCEPT ![c] = "awaiting"]
    /\ UNCHANGED <<appVars, agentVars, metricsVars, user_query, full_prompt, attempt,
                   last_error, generated, result, escaped, now, responses>>

\* variant: the client's timeout is what the earlier waits left of the budget
SendRequest_CumulativeTimeout(c) ==
    /\ pc[c] = "generating"
    /\ requests' = [requests EXCEPT
                      ![c] = Append(@, [BuildRequest(adapter, config, full_prompt[c])
                                          EXCEPT !.timeout = @ - now[c]])]
    /\ trace' = [trace EXCEPT
                   ![c] = Append(@, Event("post", attempt[c] + 1, now[c], NoError, 0))]
    /\ pc' = [pc EXCEPT ![c] = "awaiting"]
    /\ UNCHANGED <<appVars, agentVars, metricsVars, user_query, full_prompt, attempt,
                   last_error, generated, result, escaped, now, responses>>

\* one loop iteration up to the await of client.post
SendRequest(c) ==
    /\ pc[c] = "generating"
    /\ requests' = [requests EXCEPT
                      ![c] = Append(@, BuildRequest(adapter, config, full_prompt[c]))]
    /\ trace' = [trace EXCEPT
                   ![c] = Append(@, Event("post", attempt[c] + 1, now[c], NoError, 0))]
    /\ pc' = [pc EXCEPT ![c] = "awaiting"]
    /\ UNCHANGED <<appVars, agentVars, metricsVars, user_query, full_prompt, attempt,
                   last_error, generated, result, escaped, now, responses>>

\* the attempt succeeds: generate returns the stripped text
AttemptSucceeds(c) ==
    /\ pc[c] = "awaiting"
    /\ \E o \in Outcomes(TargetEndpoint(adapter, config)) :
         LET r == AttemptResult(o)
         IN  /\ r.ok
             /\ responses' = [responses EXCEPT ![c] = Append(@, o)]
             /\ generated' = [generated EXCEPT
                                ![c] = [kind |-> "return", value |-> r.value,
                                        exc |-> NoException]]
             /\ trace' = [trace EXCEPT
                            ![c] = Append(@, Event("ok", attempt[c] + 1, now[c],
                                                   NoError, 0))]
    /\ pc' = [pc EXCEPT ![c] = "returned"]
    /\ UNCHANGED <<appVars, agentVars, metricsVars, user_query, full_prompt, attempt,
                   last_error, result, escaped, now, requests>>

\* the events of the except clauses of generate for error e on attempt att
FailureEvents(ad, att, t, e) ==
    << Event("fail", att + 1, t, e, 0) >>
    \o (IF LogsFailure(ad) THEN << Event("log", att + 1, t, e, 0) >> ELSE << >>)
    \o (IF MayRetry(ad, att)
        THEN << Event("sleep", att + 1, t, NoError, BackoffDelay(ad, att)) >>
        ELSE << >>)

\* the attempt fails: the except clauses of generate; after the last attempt
\* the loop ends and generate raises
AttemptFails(c) ==
    /\ pc[c] = "awaiting"
    /\ \E o \in Outcomes(TargetEndpoint(adapter, config)) :
         LET r   == AttemptResult(o)
             err == NextLastError(last_error[c], r.error)
         IN  /\ ~r.ok
             /\ responses' = [responses EXCEPT ![c] = Append(@, o)]
             /\ last_error' = [last_error EXCEPT ![c] = err]
             /\ trace' = [trace EXCEPT
                            ![c] = @ \o FailureEvents(adapter, attempt[c], now[c],
                                                      r.error)]
             /\ IF MayRetry(adapter, attempt[c])
                THEN /\ pc' = [pc EXCEPT ![c] = "backoff"]
                     /\ UNCHANGED generated
                ELSE /\ pc' = [pc EXCEPT ![c] = "raised"]
                     /\ generated' =
                          [generated EXCEPT
                             ![c] = [kind  |-> "raise", value |-> << >>,
                                     exc   |-> ExhaustedError(AdapterName(adapter),
                                                             adapter.max_retries, err)]]
    /\ UNCHANGED <<appVars, agentVars, metricsVars, user_query, full_prompt, attempt,
                   result, escaped, now, requests>>

\* variant: the loop variable is not advanced, the same attempt is made again
BackoffDone_SameAttempt(c) ==
    /\ pc[c] = "backoff"
    /\ now' = [now EXCEPT ![c] = @ + BackoffDelay(adapter, attempt[c])]
    /\ pc' = [pc EXCEPT ![c] = "generating"]
    /\ UNCHANGED <<appVars, agentVars, metricsVars, user_query, full_prompt, attempt,
                   last_error, generated, result, escaped, trace, requests, responses>>

\* variant: the attempt counter is shared by all calls
BackoffDone_SharedAttempt(c) ==
    /\ pc[c] = "backoff"
    /\ now' = [now EXCEPT ![c] = @ + BackoffDelay(adapter, attempt[c])]
    /\ attempt' = [d \in DOMAIN attempt |-> attempt[c] + 1]
    /\ pc' = [pc EXCEPT ![c] = "generating"]
    /\ UNCHANGED <<appVars, agentVars, metricsVars, user_query, full_prompt, last_error,
                   generated, result, escaped, trace, requests, responses>>

\* asyncio.sleep returns: continue with the next loop iteration
BackoffDone(c) ==
    /\ pc[c] = "backoff"
    /\ now' = [now EXCEPT ![c] = @ + BackoffDelay(adapter, attempt[c])]
    /\ attempt' = [attempt EXCEPT ![c] = @ + 1]
    /\ pc' = [pc EXCEPT ![c] = "generating"]
    /\ UNCHANGED <<appVars, agentVars, metricsVars, user_query, full_prompt, last_error,
                   generated, result, escaped, trace, requests, responses>>

\* STEP 4 and STEP 5: generate returned
ProcessReturn(c) ==
    /\ pc[c] = "returned"
    /\ LET e == ResponseError(generated[c].value)
       IN  IF e = NoException
           THEN /\ result' = [result EXCEPT
                                ![c] = SuccessResult(user_query[c], generated[c].value,
                                                     config)]
                /\ pc' = [pc EXCEPT ![c] = "succeeded"]
                /\ UNCHANGED escaped
           ELSE Except(c, e, "failed")
    /\ UNCHANGED <<appVars, agentVars, metricsVars, user_query, full_prompt, attempt,
                   last_error, generated, now, trace, requests, responses>>

\* variant: process_query builds the prompt and calls generate again
ProcessRaise_Retries(c) ==
    /\ pc[c] = "raised"
    /\ pc' = [pc EXCEPT ![c] = "prompting"]
    /\ UNCHANGED <<appVars, agentVars, metricsVars, user_query, full_prompt, attempt,
                   last_error, generated, result, escaped, now, trace, requests,
                   responses>>

\* generate raised
ProcessRaise(c) ==
    /\ pc[c] = "raised"
    /\ Except(c, generated[c].exc, "failed")
    /\ UNCHANGED <<appVars, agentVars, metricsVars, user_query, full_prompt, attempt,
                   last_error, generated, now, trace, requests, responses>>

-----------------------------------------------------------------------------
(* MetricsCollector.  Latencies are counted in eighths of a millisecond    *)
(* (exact as floats); the rounded values get_metrics returns are counted   *)
(* in hundredths, the two decimals round(x, 2) keeps.                      *)

Callers   == {1}
Threads   == {1, 2}
Latencies == {0, 1, 5}

\* MetricsCollector.__init__
NewMetrics ==
    [request_count |-> 0, error_count |-> 0, total_latency |-> 0,
     request_latencies |-> << >>]

Max(a, b) == IF a >= b THEN a ELSE b

\* variant: the quotient is truncated
RoundHalfEven_Truncates(num, den) == num \div den

\* num / den rounded to the nearest integer, ties to the even one
RoundHalfEven(num, den) ==
    LET q == num \div den
        r == num % den
    IN  IF 2 * r < den THEN q
        ELSE IF 2 * r > den THEN q + 1
        ELSE IF q % 2 = 0 THEN q ELSE q + 1

\* round(num / den, 2), in hundredths
Round2(num, den) == RoundHalfEven(100 * num, den)

\* variant: a collector without requests reports full success
get_metrics_IdleIsFullSuccess(m) ==
    [total_requests |-> m.request_count,
     total_errors   |-> m.error_count,
     avg_latency_ms |-> Round2(m.total_latency, 8 * Max(m.request_count, 1)),
     success_rate   |-> IF m.request_count > 0
                        THEN Round2(100 * (m.request_count - m.error_count),
                                    Max(m.request_count, 1))
                        ELSE 10000]

get_metrics(m) ==
    [total_requests |-> m.request_count,
     total_errors   |-> m.error_count,
     avg_latency_ms |-> Round2(m.total_latency, 8 * Max(m.request_count, 1)),
     success_rate   |-> IF m.request_count > 0
                        THEN Round2(100 * (m.request_count - m.error_count),
                                    Max(m.request_count, 1))
                        ELSE 0]

(* Prometheus text.  A line is the sequence of its fields; a formatted      *)
(* number is the sequence of its characters.                               *)

DigitChars == << "0", "1", "2", "3", "4", "5", "6", "7", "8", "9" >>

RECURSIVE FormatInt(_)
\* str(n) of an int n >= 0
FormatInt(n) ==
    IF n < 10 THEN << DigitChars[n + 1] >>
    ELSE FormatInt(n \div 10) \o << DigitChars[(n % 10) + 1] >>

\* str(x) of a float x >= 0 with at most two decimals, h = 100 * x: the
\* shortest digits that read back as x, with at least one decimal
FormatFloat(h) ==
    FormatInt(h \div 100) \o << "." >>
    \o (IF h % 10 = 0 THEN << DigitChars[((h % 100) \div 10) + 1] >>
        ELSE << DigitChars[((h % 100) \div 10) + 1], DigitChars[(h % 10) + 1] >>)

\* success_rate is the int 0 while no request was recorded, a float afterwards
FormatSuccessRate(m, value) ==
    IF m.request_count > 0 THEN FormatFloat(value) ELSE FormatInt(value)

HelpLine(name, description) == << "# HELP", name, description >>
TypeLine(name, type)        == << "# TYPE", name, type >>
SampleLine(name, value)     == << name, value >>

\* variant: the two counters are exported under each other's name
get_prometheus_format_SwapsCounters(m) ==
    LET mt == get_metrics(m)
    IN  << HelpLine("autoassist_requests_total", "Total number of requests"),
           TypeLine("autoassist_requests_total", "counter"),
           SampleLine("autoassist_requests_total", FormatInt(mt.total_errors)),
           HelpLine("autoassist_errors_total", "Total number of errors"),
           TypeLine("autoassist_errors_total", "counter"),
           SampleLine("autoassist_errors_total", FormatInt(mt.total_requests)),
           HelpLine("autoassist_request_latency_ms",
                    "Average request latency in milliseconds"),
           TypeLine("autoassist_request_latency_ms", "gauge"),
           SampleLine("autoassist_request_latency_ms", FormatFloat(mt.avg_latency_ms)),
           HelpLine("autoassist_success_rate", "Success rate percentage"),
           TypeLine("autoassist_success_rate", "gauge"),
           SampleLine("autoassist_success_rate",
                      FormatSuccessRate(m, mt.success_rate)) >>

\* the lines joined by "\n", as the sequence of the lines
get_prometheus_format(m) ==
    LET mt == get_metrics(m)
    IN  << HelpLine("autoassist_requests_total", "Total number of requests"),
           TypeLine("autoassist_requests_total", "counter"),
           SampleLine("autoassist_requests_total", FormatInt(mt.total_requests)),
           HelpLine("autoassist_errors_total", "Total number of errors"),
           TypeLine("autoassist_errors_total", "counter"),
           SampleLine("autoassist_errors_total", FormatInt(mt.total_errors)),
           HelpLine("autoassist_request_latency_ms",
                    "Average request latency in milliseconds"),
           TypeLine("autoassist_request_latency_ms", "gauge"),
           SampleLine("autoassist_request_latency_ms", FormatFloat(mt.avg_latency_ms)),
           HelpLine("autoassist_success_rate", "Success rate percentage"),
           TypeLine("autoassist_success_rate", "gauge"),
           SampleLine("autoassist_success_rate",
                      FormatSuccessRate(m, mt.success_rate)) >>

NoExport == [taken |-> FALSE, text |-> << >>, state |-> NewMetrics]

\* record_request as one step, as the event loop runs it
record_request(m, latency_ms, error) ==
    [request_count     |-> m.request_count + 1,
     total_latency     |-> m.total_latency + latency_ms,
     request_latencies |-> Append(m.request_latencies, latency_ms),
     error_count       |-> IF error THEN m.error_count + 1 ELSE m.error_count]

IdleRecord == [pc |-> "idle", latency_ms |-> 0, error |-> FALSE, reg |-> 0]

NoSnapshot == [taken |-> FALSE, value |-> get_metrics(NewMetrics), after |-> << >>,
               quiet |-> TRUE]

InitMetrics ==
    /\ metrics = NewMetrics
    /\ rr = [t \in Callers |-> IdleRecord]
    /\ recorded = << >>
    /\ snapshot = NoSnapshot
    /\ exported = NoExport

\* the collector shared by the threads of Threads
InitMetricsThreads ==
    /\ metrics = NewMetrics
    /\ rr = [t \in Threads |-> IdleRecord]
    /\ recorded = << >>
    /\ snapshot = NoSnapshot
    /\ exported = NoExport

Quiet == \A t \in DOMAIN rr : rr[t].pc = "idle"

\* caller t calls record_request(latency_ms, error)
BeginRecord(t, latency_ms, error) ==
    /\ rr[t].pc = "idle"
    /\ Len(recorded) < MaxRecords
    /\ rr' = [rr EXCEPT ![t] = [pc |-> "load_count", latency_ms |-> latency_ms,
                                error |-> error, reg |-> 0]]
    /\ recorded' = Append(recorded, [latency_ms |-> latency_ms, error |-> error,
                                     caller |-> t])
    /\ UNCHANGED <<appVars, agentVars, callVars, metrics, snapshot, exported>>

HasCalled(t) == \E i \in 1..Len(recorded) : recorded[i].caller = t

\* thread t makes its one call of record_request
CallOnce(t, latency_ms, error) ==
    /\ ~HasCalled(t)
    /\ BeginRecord(t, latency_ms, error)

\* self.request_count += 1: the read
LoadCount(t) ==
    /\ rr[t].pc = "load_count"
    /\ rr' = [rr EXCEPT ![t].reg = metrics.request_count, ![t].pc = "store_count"]
    /\ UNCHANGED <<appVars, agentVars, callVars, metrics, recorded, snapshot, exported>>

\* variant: only the requests without error are counted
StoreCount_SkipsErrors(t) ==
    /\ rr[t].pc = "store_count"
    /\ metrics' = [metrics EXCEPT
                     !.request_count = IF rr[t].error THEN rr[t].reg ELSE rr[t].reg + 1]
    /\ rr' = [rr EXCEPT ![t].pc = "load_latency"]
    /\ UNCHANGED <<appVars, agentVars, callVars, recorded, snapshot, exported>>

\* self.request_count += 1: the write
StoreCount(t) ==
    /\ rr[t].pc = "store_count"
    /\ metrics' = [metrics EXCEPT !.request_count = rr[t].reg + 1]
    /\ rr' = [rr EXCEPT ![t].pc = "load_latency"]
    /\ UNCHANGED <<appVars, agentVars, callVars, recorded, snapshot, exported>>

\* self.total_latency += latency_ms: the read
LoadLatency(t) ==
    /\ rr[t].pc = "load_latency"
    /\ rr' = [rr EXCEPT ![t].reg = metrics.total_latency, ![t].pc = "store_latency"]
    /\ UNCHANGED <<appVars, agentVars, callVars, metrics, recorded, snapshot, exported>>

\* self.total_latency += latency_ms: the write
StoreLatency(t) ==
    /\ rr[t].pc = "store_latency"
    /\ metrics' = [metrics EXCEPT !.total_latency = rr[t].reg + rr[t].latency_ms]
    /\ rr' = [rr EXCEPT ![t].pc = "append"]
    /\ UNCHANGED <<appVars, agentVars, callVars, recorded, snapshot, exported>>

\* variant: only the two latest samples are kept
AppendLatency_KeepsLastTwo(t) ==
    /\ rr[t].pc = "append"
    /\ metrics' = [metrics EXCEPT
                     !.request_latencies =
                         IF Len(@) >= 2 THEN Append(Tail(@), rr[t].latency_ms)
                         ELSE Append(@, rr[t].latency_ms)]
    /\ rr' = [rr EXCEPT ![t].pc = IF rr[t].error THEN "load_error" ELSE "idle"]
    /\ UNCHANGED <<appVars, agentVars, callVars, recorded, snapshot, exported>>

\* self.request_latencies.append(latency_ms); if error:
AppendLatency(t) ==
    /\ rr[t].pc = "append"
    /\ metrics' = [metrics EXCEPT
                     !.request_latencies = Append(@, rr[t].latency_ms)]
    /\ rr' = [rr EXCEPT ![t].pc = IF rr[t].error THEN "load_error" ELSE "idle"]
    /\ UNCHANGED <<appVars, agentVars, callVars, recorded, snapshot, exported>>

\* self.error_count += 1: the read
LoadError(t) ==
    /\ rr[t].pc = "load_error"
    /\ rr' = [rr EXCEPT ![t].reg = metrics.error_count, ![t].pc = "store_error"]
    /\ UNCHANGED <<appVars, agentVars, callVars, metrics, recorded, snapshot, exported>>

\* self.error_count += 1: the write; record_request returns
StoreError(t) ==
    /\ rr[t].pc = "store_error"
    /\ metrics' = [metrics EXCEPT !.error_count = rr[t].reg + 1]
    /\ rr' = [rr EXCEPT ![t].pc = "idle"]
    /\ UNCHANGED <<appVars, agentVars, callVars, recorded, snapshot, exported>>

\* variant: a read counts as a request
GetMetrics_CountsRead ==
    /\ snapshot' = [taken |-> TRUE, value |-> get_metrics(metrics),
                    after |-> recorded, quiet |-> Quiet]
    /\ metrics' = [metrics EXCEPT !.request_count = @ + 1]
    /\ UNCHANGED <<appVars, agentVars, callVars, rr, recorded, exported>>

\* a reader calls get_metrics
GetMetrics ==
    /\ snapshot' = [taken |-> TRUE, value |-> get_metrics(metrics),
                    after |-> recorded, quiet |-> Quiet]
    /\ UNCHANGED <<appVars, agentVars, callVars, metrics, rr, recorded, exported>>

\* a scraper calls get_prometheus_format
GetPrometheusFormat ==
    /\ exported' = [taken |-> TRUE, text |-> get_prometheus_format(metrics),
                    state |-> metrics]
    /\ UNCHANGED <<appVars, agentVars, callVars, metrics, rr, recorded, snapshot>>

-----------------------------------------------------------------------------
(* The FastAPI application *)

MaxChatRequests == 2

\* variant: only the model name is checked
validate_config_IgnoresEndpoint(ad, cfg) == ~Falsy(cfg.model_name)

\* the adapter's validate_config: bool(model_name and endpoint)
validate_config(ad, cfg) ==
    IF ad.kind = "LocalLLMAdapter"
    THEN ~Falsy(cfg.model_name) /\ ~Falsy(ad.endpoint)
    ELSE ~Falsy(cfg.model_name) /\ ~Falsy(cfg.api_endpoint)

\* AutoAssistAgent.validate_config
agent_validate_config(ad, cfg) == validate_config(ad, cfg)

NotValidated == [called |-> FALSE, value |-> FALSE]

NoHttp == [status |-> 0, detail |-> None, body |-> NoResult]

HTTPException(status, detail) == [status |-> status, detail |-> detail, body |-> NoResult]

\* an Optional[str] field of ChatResponse: None when the dict lacks the key
OptionalField(res, key) ==
    IF key \in DOMAIN res THEN [none |-> FALSE, value |-> res[key]]
    ELSE [none |-> TRUE, value |-> << >>]

\* ChatResponse(**result)
ChatResponse(res) ==
    [status   |-> res.status,
     query    |-> res.query,
     response |-> OptionalField(res, "response"),
     error    |-> OptionalField(res, "error"),
     model    |-> res.model]

\* the characters the pattern of ChatRequest.query admits
QueryPatternChars == {"a", " ", "?", ".", ",", "!", "-", "'", "\"", "(", ")"}

\* ChatRequest: min_length = 1, max_length = 1000, pattern
SchemaValid(q) ==
    /\ StrLen(q) >= 1
    /\ StrLen(q) <= 1000
    /\ \A i \in 1..Len(q) : q[i].ch \in QueryPatternChars

\* request bodies sent to /chat
ChatQueries ==
    { << >>, << Run("a", 1) >>, << Run(" ", 1) >>, << Run(" ", 1), Run("a", 1) >>,
      << Run("<", 1) >>, Repeat("a", MaxQueryLength + 1) }

\* what the backend answers while the application serves
ChatOutcomes ==
    { Response(200, [valid_json |-> TRUE, has_choices |-> TRUE,
                     choices |-> << [has_text |-> TRUE, text |-> t] >>]) :
        t \in { << Run("a", 1) >>, << Run(" ", 1) >> } }
    \cup { Response(500, NoBody) }

\* what the handler measures beyond the backoff sleeps, in eighths of a ms
ChatLatencies == {1, 5}

\* variant: no request is recorded as an error
ErrorFlag_Never(res) == FALSE

\* error=(result.get("status") == "error")
ErrorFlag(res) == res.status = "error"

\* variant: every result is answered as a ChatResponse
ChatAnswer_AlwaysResponse(res) == [status |-> 200, detail |-> None, body |-> ChatResponse(res)]

\* the answer of the handler for the result of process_query
ChatAnswer(res) ==
    IF res.status = "error"
    THEN HTTPException(500, "Failed to process query. Please try again.")
    ELSE [status |-> 200, detail |-> None, body |-> ChatResponse(res)]

\* the except clauses of the handler for an exception out of process_query
ChatExcept(e) ==
    IF e.type = "ValueError" THEN HTTPException(400, "Invalid request format")
    ELSE HTTPException(500, "Internal server error")

InitApp ==
    /\ app = "starting"
    /\ validated = NotValidated
    /\ chat = [c \in CallIds |-> "idle"]
    /\ raw_query = [c \in CallIds |-> << >>]
    /\ http = [c \in CallIds |-> NoHttp]
    /\ handled = << >>

\* variant: the result of validate_config is only logged
StartupEvent_IgnoresResult ==
    /\ app = "starting"
    /\ agent = "ready"
    /\ validated' = [called |-> TRUE, value |-> agent_validate_config(adapter, config)]
    /\ app' = "serving"
    /\ UNCHANGED <<agentVars, callVars, metricsVars, chat, raw_query, http, handled>>

\* startup_event: the application serves only when the configuration is valid
StartupEvent ==
    /\ app = "starting"
    /\ agent = "ready"
    /\ LET ok == agent_validate_config(adapter, config)
       IN  /\ validated' = [called |-> TRUE, value |-> ok]
           /\ app' = IF ok THEN "serving" ELSE "startup_failed"
    /\ UNCHANGED <<agentVars, callVars, metricsVars, chat, raw_query, http, handled>>

\* a POST /chat with query q arrives: a body the schema rejects is answered
\* 422 before the handler runs
ChatRequest(c, q) ==
    /\ app = "serving"
    /\ chat[c] = "idle"
    /\ Len(handled) < MaxChatRequests
    /\ IF SchemaValid(q)
       THEN /\ chat' = [chat EXCEPT ![c] = "handling"]
            /\ raw_query' = [raw_query EXCEPT ![c] = q]
            /\ http' = [http EXCEPT ![c] = NoHttp]
       ELSE /\ http' = [http EXCEPT ![c] = HTTPException(422, "validation error")]
            /\ raw_query' = [raw_query EXCEPT ![c] = q]
            /\ UNCHANGED chat
    /\ UNCHANGED <<agentVars, callVars, metricsVars, app, validated, handled>>

\* variant: the query is handed to the agent as it was received
ChatProcess_Unstripped(c) ==
    /\ chat[c] = "handling"
    /\ StartProcess(c, raw_query[c])

\* sanitized_query = request.query.strip(); agent.process_query(sanitized_query)
ChatProcess(c) ==
    /\ chat[c] = "handling"
    /\ StartProcess(c, Strip(raw_query[c]))

\* process_query is over: record_request, then the answer
ChatFinish(c) ==
    /\ chat[c] = "handling"
    /\ pc[c] \in {"rejected", "failed", "succeeded", "crashed"}
    /\ \E l \in ChatLatencies :
         LET raised     == pc[c] = "crashed"
             res        == IF raised THEN NoResult ELSE result[c]
             error      == IF raised THEN TRUE ELSE ErrorFlag(res)
             answer     == IF raised THEN ChatExcept(escaped[c]) ELSE ChatAnswer(res)
             latency_ms == 8000 * now[c] + l
         IN  /\ metrics' = record_request(metrics, latency_ms, error)
             /\ recorded' = Append(recorded, [latency_ms |-> latency_ms,
                                              error |-> error, caller |-> c])
             /\ http' = [http EXCEPT ![c] = answer]
             /\ handled' = Append(handled, [query |-> raw_query[c], result |-> res,
                                            http |-> answer])
    /\ chat' = [chat EXCEPT ![c] = "idle"]
    /\ pc' = [pc EXCEPT ![c] = "idle"]
    /\ user_query' = [user_query EXCEPT ![c] = << >>]
    /\ full_prompt' = [full_prompt EXCEPT ![c] = << >>]
    /\ attempt' = [attempt EXCEPT ![c] = 0]
    /\ last_error' = [last_error EXCEPT ![c] = NoError]
    /\ generated' = [generated EXCEPT ![c] = NoGenerated]
    /\ result' = [result EXCEPT ![c] = NoResult]
    /\ escaped' = [escaped EXCEPT ![c] = NoException]
    /\ now' = [now EXCEPT ![c] = 0]
    /\ trace' = [trace EXCEPT ![c] = << >>]
    /\ requests' = [requests EXCEPT ![c] = << >>]
    /\ responses' = [responses EXCEPT ![c] = << >>]
    /\ UNCHANGED <<agentVars, app, validated, raw_query, rr, snapshot, exported>>

-----------------------------------------------------------------------------
(* Specifications *)

\* AppConfig.from_env with no environment variable set
DefaultConfig ==
    [provider |-> "local", model_name |-> "mistral", api_endpoint |-> None,
     api_token |-> None, temperature |-> DefaultTemperatureTenths,
     max_tokens |-> DefaultMaxTokens, timeout_seconds |-> DefaultTimeoutSeconds]

\* one agent serving process_query calls
Init ==
    /\ config \in LLMConfig
    /\ InitAgent
    /\ InitCalls
    /\ InitMetrics
    /\ InitApp

Next ==
    \/ ConstructAgent
    \/ \E c \in CallIds :
         \/ \E q \in Queries : StartProcess(c, q)
         \/ Validate(c)
         \/ Prompt(c)
         \/ SendRequest(c)
         \/ AttemptSucceeds(c)
         \/ AttemptFails(c)
         \/ BackoffDone(c)
         \/ ProcessReturn(c)
         \/ ProcessRaise(c)

Spec == Init /\ [][Next]_vars

\* client.post returns or raises: the backend answers, or the client's
\* timeout ends the attempt
BackendAnswers(c) == AttemptSucceeds(c) \/ AttemptFails(c)

\* the steps the event loop runs without waiting for the backend; the sleep
\* of a backoff ends after its delay
LoopStep(c) ==
    \/ Validate(c) \/ Prompt(c) \/ SendRequest(c) \/ BackoffDone(c)
    \/ ProcessReturn(c) \/ ProcessRaise(c)

\* a started call is run on by the event loop, and every attempt ends
Fairness ==
    \A c \in CallIds : WF_vars(LoopStep(c)) /\ WF_vars(BackendAnswers(c))

SpecLive == Init /\ [][Next]_vars /\ Fairness

\* the metrics collector, its record_request calls made one after the other
InitMetricsOnly ==
    /\ config = DefaultConfig
    /\ InitAgent
    /\ InitCalls
    /\ InitMetrics
    /\ InitApp

NextMetrics ==
    \/ \E t \in Callers :
         \/ \E l \in Latencies, e \in BOOLEAN : BeginRecord(t, l, e)
         \/ LoadCount(t)
         \/ StoreCount(t)
         \/ LoadLatency(t)
         \/ StoreLatency(t)
         \/ AppendLatency(t)
         \/ LoadError(t)
         \/ StoreError(t)
    \/ GetMetrics

SpecMetrics == InitMetricsOnly /\ [][NextMetrics]_vars

\* threads that call record_request once each, their steps interleaved
InitThreads ==
    /\ config = DefaultConfig
    /\ InitAgent
    /\ InitCalls
    /\ InitMetricsThreads
    /\ InitApp

NextThreads ==
    \E t \in Threads :
        \/ \E l \in Latencies, e \in BOOLEAN : CallOnce(t, l, e)
        \/ LoadCount(t)
        \/ StoreCount(t)
        \/ LoadLatency(t)
        \/ StoreLatency(t)
        \/ AppendLatency(t)
        \/ LoadError(t)
        \/ StoreError(t)

SpecThreads == InitThreads /\ [][NextThreads]_vars

\* the application: startup, then /chat requests answered one after the other
InitChat ==
    /\ config \in LLMConfig
    /\ InitAgent
    /\ InitCalls
    /\ InitMetrics
    /\ InitApp

LastResponse(c) == responses[c][Len(responses[c])]

NextChat ==
    \/ ConstructAgent
    \/ StartupEvent
    \/ \E c \in CallIds :
         \/ \E q \in ChatQueries : ChatRequest(c, q)
         \/ ChatProcess(c)
         \/ Validate(c)
         \/ Prompt(c)
         \/ SendRequest(c)
         \/ AttemptSucceeds(c) /\ LastResponse(c)' \in ChatOutcomes
         \/ AttemptFails(c) /\ LastResponse(c)' \in ChatOutcomes
         \/ BackoffDone(c)
         \/ ProcessReturn(c)
         \/ ProcessRaise(c)
         \/ ChatFinish(c)

SpecChat == InitChat /\ [][NextChat]_vars

\* two process_query calls of one agent on the event loop, their steps
\* interleaved at the awaits
ConcurrentCalls == {1, 2}

InitConcurrent ==
    /\ config \in { cfg \in LLMConfig : /\ cfg.provider \in {"local", "api"}
                                        /\ cfg.model_name = "mistral"
                                        /\ cfg.api_endpoint # None
                                        /\ cfg.api_token = None }
    /\ InitAgent
    /\ pc = [c \in ConcurrentCalls |-> "idle"]
    /\ user_query = [c \in ConcurrentCalls |-> << >>]
    /\ full_prompt = [c \in ConcurrentCalls |-> << >>]
    /\ attempt = [c \in ConcurrentCalls |-> 0]
    /\ last_error = [c \in ConcurrentCalls |-> NoError]
    /\ generated = [c \in ConcurrentCalls |-> NoGenerated]
    /\ result = [c \in ConcurrentCalls |-> NoResult]
    /\ escaped = [c \in ConcurrentCalls |-> NoException]
    /\ now = [c \in ConcurrentCalls |-> 0]
    /\ trace = [c \in ConcurrentCalls |-> << >>]
    /\ requests = [c \in ConcurrentCalls |-> << >>]
    /\ responses = [c \in ConcurrentCalls |-> << >>]
    /\ InitMetrics
    /\ InitApp

NextConcurrent ==
    \/ ConstructAgent
    \/ \E c \in ConcurrentCalls :
         \/ \E q \in ChatQueries : StartProcess(c, q)
         \/ Validate(c)
         \/ Prompt(c)
         \/ SendRequest(c)
         \/ AttemptSucceeds(c) /\ LastResponse(c)' \in ChatOutcomes
         \/ AttemptFails(c) /\ LastResponse(c)' \in ChatOutcomes
         \/ BackoffDone(c)
         \/ ProcessReturn(c)
         \/ ProcessRaise(c)

SpecConcurrent == InitConcurrent /\ [][NextConcurrent]_vars

\* one process_query call next to one record_request call and the two reads
NextFrame ==
    \/ ConstructAgent
    \/ \E c \in CallIds :
         \/ \E q \in ChatQueries : StartProcess(c, q)
         \/ Validate(c)
         \/ Prompt(c)
         \/ SendRequest(c)
         \/ AttemptSucceeds(c) /\ LastResponse(c)' \in ChatOutcomes
         \/ AttemptFails(c) /\ LastResponse(c)' \in ChatOutcomes
         \/ BackoffDone(c)
         \/ ProcessReturn(c)
         \/ ProcessRaise(c)
    \/ \E t \in Callers :
         \/ \E l \in ChatLatencies, e \in BOOLEAN : CallOnce(t, l, e)
         \/ LoadCount(t)
         \/ StoreCount(t)
         \/ LoadLatency(t)
         \/ StoreLatency(t)
         \/ AppendLatency(t)
         \/ LoadError(t)
         \/ StoreError(t)
    \/ GetMetrics
    \/ GetPrometheusFormat

SpecFrame == InitMetricsOnly /\ [][NextFrame]_vars

\* threads that call record_request any number of times, next to a reader
NextThreadsRead ==
    \/ \E t \in Threads :
         \/ \E e \in BOOLEAN : BeginRecord(t, 1, e)
         \/ LoadCount(t)
         \/ StoreCount(t)
         \/ LoadLatency(t)
         \/ StoreLatency(t)
         \/ AppendLatency(t)
         \/ LoadError(t)
         \/ StoreError(t)
    \/ GetMetrics

SpecThreadsRead == InitThreads /\ [][NextThreadsRead]_vars

\* the metrics collector and its Prometheus export
NextExport ==
    \/ \E t \in Callers :
         \/ \E l \in Latencies, e \in BOOLEAN : BeginRecord(t, l, e)
         \/ LoadCount(t)
         \/ StoreCount(t)
         \/ LoadLatency(t)
         \/ StoreLatency(t)
         \/ AppendLatency(t)
         \/ LoadError(t)
         \/ StoreError(t)
    \/ GetPrometheusFormat

SpecExport == InitMetricsOnly /\ [][NextExport]_vars

-----------------------------------------------------------------------------
(* Properties *)

Terminal == {"rejected", "failed", "succeeded"}

Started(c) == pc[c] \notin {"idle", "validating"}

ValidLength(q) == StrLen(q) >= 1 /\ StrLen(q) <= MaxQueryLength

EventsOf(c, ev) == SelectSeq(trace[c], LAMBDA e : e.ev = ev)

\* the text a well-formed successful response carries
HasText(o) ==
    /\ o.kind = "response" /\ o.status = 200 /\ o.body.valid_json
    /\ o.body.has_choices /\ Len(o.body.choices) >= 1
    /\ o.body.choices[1].has_text

TextOf(o) == o.body.choices[1].text

\* C1: a query of 1..1000 characters is never rejected, and when generate
\* returned a non-empty text t for it, process_query returns the success
\* result with query = q, response = t and model = the configured model name.
C1_ValidQuerySucceeds ==
    \A c \in CallIds :
        (pc[c] \in Terminal /\ ValidLength(user_query[c])) =>
            /\ pc[c] # "rejected"
            /\ generated[c].kind # "none"
            /\ (generated[c].kind = "return" /\ StrLen(generated[c].value) > 0) =>
                   /\ pc[c] = "succeeded"
                   /\ result[c] = [status   |-> "success",
                                   query    |-> user_query[c],
                                   response |-> generated[c].value,
                                   model    |-> config.model_name]

C1_Witness ==
    \E c \in CallIds :
        /\ pc[c] = "succeeded"
        /\ StrLen(user_query[c]) = MaxQueryLength
        /\ result[c].status = "success"
        /\ StrLen(result[c].response) > 0

\* C2: a query of length 0 or of more than 1000 characters ends in an error
\* result without any use of the adapter (no request, no generate outcome);
\* only such queries are rejected, so 1000 is accepted and 1001 is rejected.
C2_InvalidQueryRejected ==
    \A c \in CallIds :
        /\ (Started(c) /\ ~ValidLength(user_query[c])) =>
               /\ pc[c] = "rejected"
               /\ result[c].status = "error"
               /\ requests[c] = << >>
               /\ responses[c] = << >>
               /\ trace[c] = << >>
               /\ generated[c].kind = "none"
        /\ pc[c] = "rejected" => ~ValidLength(user_query[c])

C2_Witness ==
    \E c \in CallIds :
        /\ pc[c] = "rejected"
        /\ StrLen(user_query[c]) = MaxQueryLength + 1
        /\ result[c].status = "error"

C4_EmptyTextIsAdapterSuccessAgentFailure ==
    \A c \in CallIds :
        /\ \A i \in 1..Len(responses[c]) :
               (HasText(responses[c][i]) /\ TextOf(responses[c][i]) = << >>) =>
                   /\ i = Len(responses[c])
                   /\ Len(requests[c]) = i
                   /\ generated[c] = [kind |-> "return", value |-> << >>,
                                      exc |-> NoException]
                   /\ pc[c] \in {"returned", "failed"}
        /\ (pc[c] \in Terminal /\ generated[c].kind = "return"
                /\ generated[c].value = << >>) =>
               /\ pc[c] = "failed"
               /\ result[c].status = "error"
        /\ (pc[c] \in Terminal /\ result[c].status = "success") =>
               /\ generated[c].kind = "return"
               /\ StrLen(generated[c].value) > 0

C4_Witness ==
    \E c \in CallIds :
        /\ pc[c] = "failed"
        /\ Len(responses[c]) = 1
        /\ HasText(responses[c][1])
        /\ TextOf(responses[c][1]) = << >>
        /\ result[c].status = "error"

\* C5: for both adapters, when attempts 1 and 2 fail and attempt 3 succeeds,
\* generate returns the value of attempt 3 after exactly 3 requests, attempt 2
\* starting at least 1 second after attempt 1 failed and attempt 3 at least 2
\* seconds after attempt 2 failed.
C5_SucceedsOnThirdAttempt ==
    \A c \in CallIds :
        (Len(responses[c]) = 3 /\ AttemptResult(responses[c][3]).ok) =>
            LET posts == EventsOf(c, "post")
                fails == EventsOf(c, "fail")
            IN  /\ adapter.kind \in {"LocalLLMAdapter", "APILLMAdapter"}
                /\ generated[c].kind = "return"
                /\ HasText(responses[c][3]) =>
                       generated[c].value = Strip(TextOf(responses[c][3]))
                /\ ~HasText(responses[c][3]) => generated[c].value = << >>
                /\ Len(requests[c]) = 3
                /\ Len(posts) = 3
                /\ Len(fails) = 2
                /\ posts[2].t - fails[1].t >= 1
                /\ posts[3].t - fails[2].t >= 2

C5_Witness ==
    \E c \in CallIds :
        /\ adapter.kind = "APILLMAdapter"
        /\ Len(responses[c]) = 3
        /\ HasText(responses[c][3])
        /\ pc[c] = "succeeded"
        /\ now[c] = 3

\* C6: for both adapters, when every attempt fails, generate raises after
\* exactly 3 attempts, never after fewer, and the error it raises carries the
\* cause of the third attempt.
C6_ExhaustedAfterThreeWithLastCause ==
    \A c \in CallIds :
        LET fails == EventsOf(c, "fail")
        IN  /\ generated[c].kind = "raise" =>
                /\ Len(requests[c]) = 3
                /\ Len(responses[c]) = 3
                /\ Len(fails) = 3
                /\ generated[c].exc.type = "RuntimeError"
                /\ generated[c].exc.cause = fails[3].cause
                /\ generated[c].exc.msg[4] = fails[3].cause.str
                /\ generated[c].exc.msg[2] = "3"
            /\ Len(fails) = 3 => generated[c].kind = "raise"
            /\ Len(fails) <= 3 /\ Len(requests[c]) <= 3

C6_Witness ==
    \E c \in CallIds :
        LET fails == EventsOf(c, "fail")
        IN  /\ adapter.kind = "APILLMAdapter"
            /\ generated[c].kind = "raise"
            /\ Len(fails) = 3
            /\ fails[1].cause # fails[3].cause
            /\ fails[2].cause # fails[3].cause

\* C7: attempt 1 is sent with no wait before it; a failed attempt k < 3 is
\* followed by exactly one wait of k seconds, after which attempt k+1 is
\* sent; a failed attempt 3 is followed by no wait.
C7_LinearBackoff ==
    \A c \in CallIds :
        LET tr == trace[c]
        IN  \A i \in 1..Len(tr) :
              /\ (tr[i].ev = "post" /\ tr[i].attempt = 1) =>
                     /\ i = 1
                     /\ tr[i].t = 0
              /\ (tr[i].ev = "post" /\ tr[i].attempt > 1) =>
                     /\ tr[i - 1].ev = "sleep"
                     /\ tr[i - 1].attempt = tr[i].attempt - 1
                     /\ tr[i].t = tr[i - 1].t + tr[i - 1].d
              /\ tr[i].ev = "sleep" =>
                     /\ tr[i].attempt \in {1, 2}
                     /\ tr[i].d = tr[i].attempt
                     /\ Cardinality({ j \in 1..Len(tr) :
                                        /\ tr[j].ev = "sleep"
                                        /\ tr[j].attempt = tr[i].attempt }) = 1
              /\ (tr[i].ev = "fail" /\ tr[i].attempt < 3) =>
                     \E j \in (i + 1)..Len(tr) :
                        /\ tr[j].ev = "sleep"
                        /\ tr[j].attempt = tr[i].attempt
                        /\ \A k \in (i + 1)..(j - 1) : tr[k].ev = "log"
              /\ (tr[i].ev = "fail" /\ tr[i].attempt >= 3) =>
                     /\ tr[i].attempt = 3
                     /\ \A j \in (i + 1)..Len(tr) : tr[j].ev = "log"

C7_Witness ==
    \E c \in CallIds :
        /\ Len(EventsOf(c, "post")) = 3
        /\ Len(EventsOf(c, "sleep")) = 2
        /\ Len(EventsOf(c, "fail")) = 3
        /\ generated[c].kind = "raise"

\* C8: create_adapter gives the local adapter for provider "local", the API
\* adapter for provider "api", and for any other provider raises the error
\* that names the provider and gives no adapter; no call is then served.
C8_FactoryDispatch ==
    agent # "unconstructed" =>
        /\ config.provider = "local" =>
               /\ adapter.kind = "LocalLLMAdapter"
               /\ init_error = NoException
               /\ agent = "ready"
        /\ config.provider = "api" =>
               /\ adapter.kind = "APILLMAdapter"
               /\ init_error = NoException
               /\ agent = "ready"
        /\ config.provider \notin {"local", "api"} =>
               /\ adapter = NoAdapter
               /\ agent = "construct_failed"
               /\ init_error.type = "ValueError"
               /\ init_error.msg = << "Unknown LLM provider: ", config.provider >>
               /\ \A c \in CallIds : pc[c] = "idle"

C8_Witness ==
    /\ agent = "construct_failed"
    /\ config.provider = "azure"
    /\ adapter = NoAdapter

-----------------------------------------------------------------------------
(* Properties of the metrics collector *)

RECURSIVE SumLatency(_)
SumLatency(calls) ==
    IF calls = << >> THEN 0 ELSE Head(calls).latency_ms + SumLatency(Tail(calls))

ErrorCalls(calls) == Cardinality({ i \in 1..Len(calls) : calls[i].error })

Abs(x) == IF x >= 0 THEN x ELSE -x

\* C9: error_count <= request_count in every state, the states inside a
\* record_request call included, and in every value get_metrics returned.
C9_ErrorsAtMostRequests ==
    /\ metrics.error_count <= metrics.request_count
    /\ snapshot.value.total_errors <= snapshot.value.total_requests

C9_Witness ==
    \E t \in Callers :
        /\ rr[t].pc = "store_error"
        /\ metrics.request_count = 2
        /\ metrics.error_count = 1

\* C10: after N >= 1 completed record_request calls, E of them with error,
\* get_metrics returns total_requests = N, total_errors = E, avg_latency_ms
\* within half a hundredth of sum/N and success_rate within half a hundredth
\* of 100*(N-E)/N.
C10_SnapshotMatchesCalls ==
    (snapshot.taken /\ snapshot.quiet /\ Len(snapshot.after) >= 1) =>
        LET N == Len(snapshot.after)
            E == ErrorCalls(snapshot.after)
            T == SumLatency(snapshot.after)
            v == snapshot.value
        IN  /\ v.total_requests = N
            /\ v.total_errors = E
            /\ 2 * Abs(v.avg_latency_ms * 8 * N - 100 * T) <= 8 * N
            /\ 2 * Abs(v.success_rate * N - 10000 * (N - E)) <= N

C10_Witness ==
    /\ snapshot.taken
    /\ snapshot.quiet
    /\ Len(snapshot.after) = 3
    /\ ErrorCalls(snapshot.after) = 1
    /\ snapshot.value.success_rate = 6667
    /\ snapshot.value.avg_latency_ms = 21

-----------------------------------------------------------------------------
(* Requests and results *)

IsJsonSuccess(o) == o.kind = "response" /\ o.status < 400 /\ o.body.valid_json

\* C17: every response of status < 400 with a JSON body ends generate with a
\* returned value: the first choice's text stripped, and the empty string when
\* the body has no choices key, an empty choices list or a first choice
\* without text.
C17_MissingStructureReturnsEmpty ==
    \A c \in CallIds :
        \A i \in 1..Len(responses[c]) :
            LET o == responses[c][i]
            IN  IsJsonSuccess(o) =>
                    /\ i = Len(responses[c])
                    /\ generated[c].kind = "return"
                    /\ generated[c].value =
                           IF HasText(o) THEN Strip(TextOf(o)) ELSE << >>

HeaderNames(h) == { x[1] : x \in h }

\* C18: on every attempt the local adapter's headers contain Content-Type,
\* the remote adapter's headers are empty exactly when no token is
\* configured, and for both the Authorization header is present exactly when
\* a non-empty token is configured, with the value "Bearer <token>".
C18_Headers ==
    \A c \in CallIds :
        \A i \in 1..Len(requests[c]) :
            LET h == requests[c][i].headers
            IN  /\ adapter.kind = "LocalLLMAdapter" =>
                       << "Content-Type", << "application/json" >> >> \in h
                /\ adapter.kind = "APILLMAdapter" =>
                       ((h = { }) <=> config.api_token \in {None, ""})
                /\ ("Authorization" \in HeaderNames(h)) <=>
                       config.api_token \notin {None, ""}
                /\ \A x \in h :
                       x[1] = "Authorization" => x[2] = << "Bearer ", config.api_token >>

\* a remote adapter without token has made its three attempts
C18_Witness ==
    \E c \in CallIds :
        /\ adapter.kind = "APILLMAdapter"
        /\ config.api_token = None
        /\ Len(requests[c]) = 3
        /\ requests[c][3].headers = { }

\* C19: every attempt of the local adapter posts to the configured endpoint,
\* or to the loopback default when none is configured, followed by
\* "/completions"; every attempt of the remote adapter posts to the
\* configured endpoint as it is, also when none is configured.
C19_Urls ==
    \A c \in CallIds :
        \A i \in 1..Len(requests[c]) :
            LET url == requests[c][i].url
            IN  /\ adapter.kind = "LocalLLMAdapter" =>
                       url = << IF config.api_endpoint \in {None, ""}
                                THEN "http://localhost:1234/v1"
                                ELSE config.api_endpoint,
                                "/completions" >>
                /\ adapter.kind = "APILLMAdapter" => url = << config.api_endpoint >>

\* a remote adapter without endpoint has made its three attempts
C19_Witness ==
    \E c \in CallIds :
        /\ adapter.kind = "APILLMAdapter"
        /\ config.api_endpoint = None
        /\ Len(requests[c]) = 3
        /\ requests[c][3].url = << None >>

\* C20: a result of process_query is a success result with exactly the
\* fields status, query, response, model or an error result with exactly the
\* fields status, query, error, model; its query is the input query and its
\* model the configured model name, also when validation rejected the query.
C20_ResultVariants ==
    \A c \in CallIds :
        pc[c] \in Terminal =>
            /\ \/ /\ result[c].status = "success"
                  /\ DOMAIN result[c] = {"status", "query", "response", "model"}
               \/ /\ result[c].status = "error"
                  /\ DOMAIN result[c] = {"status", "query", "error", "model"}
            /\ result[c].query = user_query[c]
            /\ result[c].model = config.model_name

\* a query of 1001 characters was rejected
C20_Witness ==
    \E c \in CallIds :
        /\ pc[c] = "rejected"
        /\ StrLen(user_query[c]) = MaxQueryLength + 1
        /\ result[c].query = user_query[c]
        /\ DOMAIN result[c] = {"status", "query", "error", "model"}

-----------------------------------------------------------------------------
(* Order of the steps; attempts and their failures *)

\* the state of the call as the state machine of process_query names it
Phase(p) ==
    IF p = "idle" THEN "Start"
    ELSE IF p = "validating" THEN "Validating"
    ELSE IF p = "prompting" THEN "Prompting"
    ELSE IF p \in {"generating", "awaiting", "backoff", "returned", "raised"}
    THEN "Generating"
    ELSE IF p = "rejected" THEN "Rejected"
    ELSE IF p = "failed" THEN "Failed"
    ELSE IF p = "succeeded" THEN "Succeeded"
    ELSE "Crashed"

PhaseOrder ==
    { << "Start", "Validating" >>, << "Validating", "Rejected" >>,
      << "Validating", "Prompting" >>, << "Prompting", "Generating" >>,
      << "Generating", "Failed" >>, << "Generating", "Succeeded" >> }

\* C21: a call of process_query goes Start, Validating, Rejected or Start,
\* Validating, Prompting, Generating, then Failed or Succeeded; the prompt is
\* built only after validation and only once, generate is entered only from
\* prompt construction (so at most once per call), requests are sent only
\* inside generate, and nothing changes after a terminal state.
C21_StateMachine ==
    [][ \A c \in CallIds :
          /\ Phase(pc'[c]) # Phase(pc[c]) =>
                 << Phase(pc[c]), Phase(pc'[c]) >> \in PhaseOrder
          /\ full_prompt'[c] # full_prompt[c] =>
                 Phase(pc[c]) = "Prompting" /\ full_prompt[c] = << >>
          /\ requests'[c] # requests[c] =>
                 Phase(pc[c]) = "Generating" /\ full_prompt[c] # << >>
          /\ Phase(pc[c]) \in {"Rejected", "Failed", "Succeeded"} =>
                 /\ pc'[c] = pc[c] /\ result'[c] = result[c]
                 /\ requests'[c] = requests[c] /\ trace'[c] = trace[c] ]_vars

\* generate used its three attempts and process_query ended in Failed
C21_Witness ==
    \E c \in CallIds :
        /\ pc[c] = "failed"
        /\ Len(requests[c]) = 3
        /\ generated[c].kind = "raise"

\* C24: for both adapters every failed attempt is logged, with its attempt
\* number and its error, right after the failure and before the backoff
\* sleep that follows it.
C24_FailuresLogged ==
    \A c \in CallIds :
        \A i \in 1..Len(trace[c]) :
            trace[c][i].ev = "fail" =>
                /\ i < Len(trace[c])
                /\ trace[c][i + 1].ev = "log"
                /\ trace[c][i + 1].attempt = trace[c][i].attempt
                /\ trace[c][i + 1].cause = trace[c][i].cause

\* the failure kinds: no response, status >= 400, body that is not JSON
IsFailure(o) == o.kind # "response" \/ o.status >= 400 \/ ~o.body.valid_json

\* a further attempt follows attempt k, or is about to
Retried(c, k) ==
    \/ Len(requests[c]) > k
    \/ pc[c] = "backoff" /\ attempt[c] = k - 1
    \/ pc[c] = "generating" /\ attempt[c] = k

\* C25: a failure of any kind (status >= 400, connection error, timeout,
\* malformed body) on attempt 1 or 2 leads to a further attempt, and generate
\* raises only after the third attempt.
C25_EveryFailureRetried ==
    \A c \in CallIds :
        /\ \A k \in 1..Len(responses[c]) :
               (IsFailure(responses[c][k]) /\ k < 3) =>
                   /\ Retried(c, k)
                   /\ k = Len(responses[c]) => generated[c].kind = "none"
        /\ generated[c].kind = "raise" => Len(responses[c]) = 3

\* a 404, then a body that is not JSON, then a third attempt
C25_Witness ==
    \E c \in CallIds :
        /\ Len(requests[c]) = 3
        /\ responses[c][1].kind = "response" /\ responses[c][1].status = 404
        /\ responses[c][2].kind = "response" /\ responses[c][2].status = 200
        /\ ~responses[c][2].body.valid_json

PostEvents(c) == EventsOf(c, "post")

\* C26: the client of every attempt is created with the configured timeout,
\* whatever the time the earlier attempts and backoff sleeps took; an attempt
\* that times out is one failed attempt, retried like any other failure.
C26_FreshTimeoutPerAttempt ==
    \A c \in CallIds :
        /\ \A k \in 1..Len(requests[c]) :
               requests[c][k].timeout = config.timeout_seconds
        /\ \A k \in 1..Len(responses[c]) :
               responses[c][k].kind = "timeout" =>
                   /\ \E i \in 1..Len(trace[c]) :
                          /\ trace[c][i].ev = "fail"
                          /\ trace[c][i].attempt = k
                          /\ trace[c][i].cause = ReadTimeout
                   /\ Cardinality({ i \in 1..Len(trace[c]) :
                                      /\ trace[c][i].ev = "fail"
                                      /\ trace[c][i].attempt = k }) = 1
                   /\ k < 3 => Retried(c, k)

\* the third attempt, sent after two timeouts and 3 seconds of backoff
C26_Witness ==
    \E c \in CallIds :
        /\ Len(requests[c]) = 3
        /\ responses[c][1].kind = "timeout"
        /\ responses[c][2].kind = "timeout"
        /\ PostEvents(c)[3].t = 3
        /\ requests[c][3].timeout = DefaultTimeoutSeconds

\* C30: the prompt of every request is the system prompt, the section
\* "User Query: " with the query as process_query received it, and the closing
\* instruction line; it is never the query alone.
C30_PromptStructure ==
    \A c \in CallIds :
        \A k \in 1..Len(requests[c]) :
            LET prompt == requests[c][k].json.prompt
            IN  /\ Len(prompt) = 4
                /\ prompt[1] = SYSTEM_PROMPT
                /\ prompt[2] = "\n\nUser Query: "
                /\ prompt[3] = user_query[c]
                /\ prompt[4] = "\n\nProvide a helpful, safety-first response:"
                /\ ValidLength(user_query[c])

\* a request for a query with a leading blank, which is kept
C30_Witness ==
    \E c \in CallIds :
        /\ Len(requests[c]) >= 1
        /\ user_query[c] = << Run(" ", 1), Run("a", 1) >>
        /\ requests[c][1].json.prompt[3] = << Run(" ", 1), Run("a", 1) >>

-----------------------------------------------------------------------------
(* Error messages, startup and the /chat handler *)

MessageParts(msg) == { msg[i] : i \in 1..Len(msg) }

\* C14: the error message of the result process_query returns after generate
\* used up its attempts contains neither the description of the underlying
\* failure nor the configured token.
C14_GenericFailureMessage ==
    \A c \in CallIds :
        (pc[c] = "failed" /\ generated[c].kind = "raise") =>
            /\ last_error[c].str \notin MessageParts(result[c].error)
            /\ config.api_token \notin MessageParts(result[c].error)

\* the endpoint validate_config looks at
ResolvedEndpoint ==
    IF adapter.kind = "LocalLLMAdapter"
    THEN IF config.api_endpoint \in {None, ""} THEN "http://localhost:1234/v1"
         ELSE config.api_endpoint
    ELSE config.api_endpoint

\* C13: the value the agent's validate_config returns at startup is the
\* adapter's, true exactly when the model name and the endpoint (resolved
\* for the local adapter, configured for the remote one) are non-empty, and
\* the call sends no request and receives no response.
C13_ValidateConfig ==
    [][ (~validated.called /\ validated'.called) =>
            /\ validated'.value = validate_config(adapter, config)
            /\ validated'.value <=> (/\ config.model_name \notin {None, ""}
                                     /\ ResolvedEndpoint \notin {None, ""})
            /\ requests' = requests
            /\ responses' = responses ]_vars

\* startup failed for a remote adapter with a model name and no endpoint
C13_Witness ==
    /\ validated.called
    /\ ~validated.value
    /\ app = "startup_failed"
    /\ adapter.kind = "APILLMAdapter"
    /\ config.model_name = "mistral"
    /\ config.api_endpoint = None

FixedFailure ==
    [status |-> 500, detail |-> "Failed to process query. Please try again.",
     body |-> NoResult]

\* C15: a /chat request is answered 200 only when process_query returned a
\* success result; every error result is answered 500 with the same detail
\* string, whatever the error text of the result.
C15_FixedFailureDetail ==
    \A i \in 1..Len(handled) :
        /\ handled[i].http.status = 200 => handled[i].result.status = "success"
        /\ handled[i].result.status = "error" => handled[i].http = FixedFailure

\* two requests failed with different error texts and got the same answer
C15_Witness ==
    /\ Len(handled) = 2
    /\ handled[1].result.status = "error"
    /\ handled[2].result.status = "error"
    /\ handled[1].result.error # handled[2].result.error
    /\ handled[1].http = handled[2].http
    /\ handled[1].http.status = 500

Failed(h) == h.result.status # "success"

\* C16: every request the handler answered was recorded exactly once, with
\* the error flag true exactly when it did not end in a success result, and
\* not before process_query was over; total_requests is the number of
\* handled requests and total_errors the number of them that failed.
C16_RecordedOncePerRequest ==
    /\ Len(recorded) = Len(handled)
    /\ \A i \in 1..Len(handled) : recorded[i].error <=> Failed(handled[i])
    /\ get_metrics(metrics).total_requests = Len(handled)
    /\ get_metrics(metrics).total_errors =
           Cardinality({ i \in 1..Len(handled) : Failed(handled[i]) })

\* a failed request followed by a successful one
C16_Witness ==
    /\ Len(handled) = 2
    /\ Failed(handled[1])
    /\ ~Failed(handled[2])
    /\ metrics.request_count = 2
    /\ metrics.error_count = 1

\* a request has entered the /chat handler
InHandler(c) == chat[c] # "idle" \/ pc[c] # "idle"

\* C28: with an unknown provider the construction of the agent fails and the
\* application never starts; with a false validate_config the startup handler
\* fails; so every request that is or was in the /chat handler is served by
\* an agent of a known provider whose validate_config is true.
C28_ConfigErrorsAbortStartup ==
    /\ config.provider \notin {"local", "api"} =>
           /\ agent # "ready"
           /\ app = "starting"
           /\ agent = "construct_failed" => init_error.type = "ValueError"
    /\ (validated.called /\ ~validated.value) => app = "startup_failed"
    /\ app = "serving" => validated.called /\ validated.value
    /\ \A c \in CallIds :
           (InHandler(c) \/ Len(handled) > 0) =>
               /\ agent = "ready"
               /\ app = "serving"
               /\ config.provider \in {"local", "api"}
               /\ config.model_name \notin {None, ""}
               /\ ResolvedEndpoint \notin {None, ""}

\* the construction of the agent failed for the provider "azure"
C28_Witness ==
    /\ agent = "construct_failed"
    /\ config.provider = "azure"
    /\ init_error.type = "ValueError"
    /\ app = "starting"
    /\ ~validated.called

-----------------------------------------------------------------------------
(* What changes the collector *)

\* a step of record_request that writes a field of the collector
WritesCollector(t) ==
    /\ rr[t].pc \in {"store_count", "store_latency", "append", "store_error"}
    /\ rr'[t].pc # rr[t].pc

\* C27: request_count, error_count, total_latency and request_latencies
\* change only in a step of record_request; a get_metrics or
\* get_prometheus_format read leaves them unchanged, and so does every step
\* of process_query and generate.
C27_OnlyRecordRequestWrites ==
    [][ /\ metrics' # metrics =>
               /\ \E t \in DOMAIN rr : WritesCollector(t)
               /\ snapshot' = snapshot /\ exported' = exported
               /\ callVars' = callVars
        /\ (snapshot' # snapshot \/ exported' # exported) => metrics' = metrics
        /\ callVars' # callVars => metrics' = metrics ]_vars

\* both reads and a finished process_query call next to one recorded request
C27_Witness ==
    /\ snapshot.taken /\ snapshot.value.total_requests = 1
    /\ exported.taken /\ exported.state.request_count = 1
    /\ metrics.request_count = 1
    /\ \E c \in CallIds : pc[c] = "succeeded"

-----------------------------------------------------------------------------
(* Concurrent calls *)

\* the steps of call c after its start
CallStep(c) ==
    \/ Validate(c) \/ Prompt(c) \/ SendRequest(c) \/ AttemptSucceeds(c)
    \/ AttemptFails(c) \/ BackoffDone(c) \/ ProcessReturn(c) \/ ProcessRaise(c)

Running(c) ==
    pc[c] \in {"validating", "prompting", "generating", "awaiting", "backoff",
               "returned", "raised"}

\* C22: while a call waits for its HTTP response or sleeps in a backoff,
\* every other call that has not ended can take its next step (and a call
\* not yet started can start), so it can run on to a terminal state.
C22_WaitsDoNotBlock ==
    \A c \in DOMAIN pc, d \in DOMAIN pc :
        (c # d /\ pc[d] \in {"awaiting", "backoff"}) =>
            /\ Running(c) => ENABLED CallStep(c)
            /\ pc[c] = "idle" => ENABLED StartProcess(c, << Run("a", 1) >>)

\* call 2 made three attempts and succeeded while call 1 waits for its first
\* response
C22_Witness ==
    /\ DOMAIN pc = ConcurrentCalls
    /\ pc[1] = "awaiting" /\ responses[1] = << >>
    /\ pc[2] = "succeeded" /\ Len(responses[2]) = 3

RECURSIVE GenerateAlone(_, _, _, _)
\* the result of a call from attempt k on, given the responses to its attempts
GenerateAlone(q, resps, k, name) ==
    IF k > Len(resps) THEN NoResult
    ELSE LET r == AttemptResult(resps[k])
         IN  IF r.ok
             THEN IF k < Len(resps) THEN NoResult
                  ELSE IF ResponseError(r.value) = NoException
                  THEN SuccessResult(q, r.value, config)
                  ELSE ErrorResult(q, ResponseError(r.value), config)
             ELSE IF k < 3 THEN GenerateAlone(q, resps, k + 1, name)
             ELSE IF k < Len(resps) THEN NoResult
             ELSE ErrorResult(q, ExhaustedError(name, 3, r.error), config)

\* the result process_query returns for query q when it runs alone and the
\* backend answers its attempts with resps
RunAlone(q, resps) ==
    IF ValidationError(q) # NoException
    THEN IF resps = << >> THEN ErrorResult(q, ValidationError(q), config) ELSE NoResult
    ELSE GenerateAlone(q, resps, 1, AdapterName(adapter))

\* C29: under every interleaving of concurrent calls, the result of each
\* call is the result the call returns when run alone with the same query
\* and the same responses to its own attempts.
C29_CallsIndependent ==
    \A c \in DOMAIN pc :
        pc[c] \in Terminal => result[c] = RunAlone(user_query[c], responses[c])

\* two finished calls with different queries, responses and results
C29_Witness ==
    /\ DOMAIN pc = ConcurrentCalls
    /\ pc[1] = "failed" /\ Len(responses[1]) = 3 /\ generated[1].kind = "raise"
    /\ pc[2] = "succeeded" /\ Len(responses[2]) = 2
    /\ user_query[1] # user_query[2]

-----------------------------------------------------------------------------
(* Prometheus export *)

DigitValue(ch) == CHOOSE d \in 0..9 : DigitChars[d + 1] = ch

IsDigit(ch) == \E d \in 0..9 : DigitChars[d + 1] = ch

RECURSIVE ParseInt(_)
\* the number a sequence of digits denotes
ParseInt(chars) ==
    IF Len(chars) = 0 THEN 0
    ELSE 10 * ParseInt(SubSeq(chars, 1, Len(chars) - 1)) + DigitValue(chars[Len(chars)])

\* the position of the decimal point, 0 when there is none
PointAt(chars) ==
    IF \E i \in 1..Len(chars) : chars[i] = "."
    THEN CHOOSE i \in 1..Len(chars) : chars[i] = "." ELSE 0

\* a decimal number of at most two decimals
IsNumber(chars) ==
    /\ Len(chars) >= 1
    /\ \A i \in 1..Len(chars) : i # PointAt(chars) => IsDigit(chars[i])
    /\ PointAt(chars) # 0 =>
         /\ PointAt(chars) > 1
         /\ Len(chars) - PointAt(chars) \in {1, 2}

\* the value a Prometheus sample denotes, in hundredths
ParseHundredths(chars) ==
    LET p == PointAt(chars)
    IN  IF p = 0 THEN 100 * ParseInt(chars)
        ELSE LET whole == SubSeq(chars, 1, p - 1)
                 frac  == SubSeq(chars, p + 1, Len(chars))
             IN  100 * ParseInt(whole)
                 + (IF Len(frac) = 1 THEN 10 * ParseInt(frac) ELSE ParseInt(frac))

IsSample(line) == line[1] \notin {"# HELP", "# TYPE"}

MetricNames ==
    << "autoassist_requests_total", "autoassist_errors_total",
       "autoassist_request_latency_ms", "autoassist_success_rate" >>

MetricTypes == << "counter", "counter", "gauge", "gauge" >>

\* the four fields of a get_metrics value in the order of the export, in
\* hundredths
MetricValues(mt) ==
    << 100 * mt.total_requests, 100 * mt.total_errors, mt.avg_latency_ms,
       mt.success_rate >>

\* C12: the Prometheus text has exactly four sample lines, for
\* autoassist_requests_total, autoassist_errors_total,
\* autoassist_request_latency_ms and autoassist_success_rate in this order;
\* their values are the four fields get_metrics returns in the state the
\* export read; each is immediately preceded by the HELP line and the TYPE
\* line of the same name, of type counter, counter, gauge, gauge.
C12_PrometheusFourStanzas ==
    exported.taken =>
        LET text == exported.text
            mt   == get_metrics(exported.state)
        IN  /\ { i \in 1..Len(text) : IsSample(text[i]) } = { 3 * k : k \in 1..4 }
            /\ \A k \in 1..4 :
                 /\ Len(text[3 * k]) = 2
                 /\ text[3 * k][1] = MetricNames[k]
                 /\ IsNumber(text[3 * k][2])
                 /\ ParseHundredths(text[3 * k][2]) = MetricValues(mt)[k]
                 /\ text[3 * k - 2][1] = "# HELP"
                 /\ text[3 * k - 2][2] = MetricNames[k]
                 /\ text[3 * k - 1] = << "# TYPE", MetricNames[k], MetricTypes[k] >>

\* an export after three requests, one of them failed: 66.67 percent
C12_Witness ==
    /\ exported.taken
    /\ exported.state.request_count = 3
    /\ exported.state.error_count = 1
    /\ exported.state.total_latency = 1
    /\ exported.text[3] = << "autoassist_requests_total", << "3" >> >>
    /\ exported.text[9][2] = << "0", ".", "0", "4" >>
    /\ exported.text[12][2] = << "6", "6", ".", "6", "7" >>

-----------------------------------------------------------------------------
(* record_request from several threads *)

\* C11: when every thread has made its one call of record_request and all
\* calls have returned, total_requests is the number of threads and
\* total_errors is the number of calls with error = true: no update is lost.
C11_NoLostUpdate ==
    (Quiet /\ \A t \in Threads : HasCalled(t)) =>
        /\ get_metrics(metrics).total_requests = Cardinality(Threads)
        /\ get_metrics(metrics).total_errors = ErrorCalls(recorded)

\* C23: of two successive get_metrics reads, the second reports a
\* total_requests and a total_errors at least as large as the first, with
\* record_request calls running concurrently.
C23_ReadsNeverDecrease ==
    [][ (snapshot.taken /\ snapshot'.taken /\ snapshot' # snapshot) =>
            /\ snapshot'.value.total_requests >= snapshot.value.total_requests
            /\ snapshot'.value.total_errors >= snapshot.value.total_errors ]_vars

-----------------------------------------------------------------------------
(* Validation messages *)

\* the error text of the result of call c, << >> when it has none
ErrorText(c) ==
    IF "error" \in DOMAIN result[c] THEN result[c].error ELSE << >>

\* the result of call c is an error result with the text msg
FailsWith(c, msg) == result[c].status = "error" /\ ErrorText(c) = << msg >>

\* C31: the result of a rejected call has the error message "invalid query"
\* when the query is empty and "query too long" when the query has more than
\* 1000 characters, and no other query produces either message.
C31_ValidationMessages ==
    \A c \in CallIds :
        pc[c] \in Terminal =>
            /\ StrLen(user_query[c]) = 0 => FailsWith(c, "invalid query")
            /\ StrLen(user_query[c]) > 1000 => FailsWith(c, "query too long")
            /\ FailsWith(c, "invalid query") => StrLen(user_query[c]) = 0
            /\ FailsWith(c, "query too long") => StrLen(user_query[c]) > 1000

\* C31, amended: the result of a rejected call has the error message
\* "Invalid query: must be non-empty string" when the query is empty and
\* "Query too long: maximum 1000 characters" when the query has more than 1000
\* characters, and no other query produces either message.
C31_ValidationMessagesAsRaised ==
    \A c \in CallIds :
        pc[c] \in Terminal =>
            /\ StrLen(user_query[c]) = 0 =>
                   /\ pc[c] = "rejected"
                   /\ FailsWith(c, "Invalid query: must be non-empty string")
            /\ StrLen(user_query[c]) > 1000 =>
                   /\ pc[c] = "rejected"
                   /\ FailsWith(c, "Query too long: maximum 1000 characters")
            /\ FailsWith(c, "Invalid query: must be non-empty string") =>
                   StrLen(user_query[c]) = 0
            /\ FailsWith(c, "Query too long: maximum 1000 characters") =>
                   StrLen(user_query[c]) > 1000

\* the empty query was rejected with the message of the first check
C31_Witness ==
    \E c \in CallIds :
        /\ pc[c] = "rejected"
        /\ user_query[c] = << >>
        /\ FailsWith(c, "Invalid query: must be non-empty string")
        /\ requests[c] = << >>

-----------------------------------------------------------------------------
(* The values get_metrics returns *)

ZeroMetrics ==
    [total_requests |-> 0, total_errors |-> 0, avg_latency_ms |-> 0, success_rate |-> 0]

\* C32: on a collector without recorded request get_metrics returns
\* total_requests = 0, total_errors = 0, avg_latency_ms = 0 and
\* success_rate = 0; in every state the avg_latency_ms it returns equals
\* total_latency / max(request_count, 1).
C32_AverageIsQuotient ==
    [][ snapshot' # snapshot =>
            LET v == snapshot'.value
                n == IF metrics.request_count >= 1 THEN metrics.request_count ELSE 1
            IN  /\ metrics = NewMetrics => v = ZeroMetrics
                /\ 8 * n * v.avg_latency_ms = 100 * metrics.total_latency ]_vars

\* C32, amended: on a collector without recorded request get_metrics returns
\* total_requests = 0, total_errors = 0, avg_latency_ms = 0 and
\* success_rate = 0; in every state the avg_latency_ms it returns equals
\* total_latency / max(request_count, 1) rounded to 2 decimals (it is a
\* multiple of 0.01 at most 0.005 away from the quotient).
C32_AverageIsRoundedQuotient ==
    [][ snapshot' # snapshot =>
            LET v == snapshot'.value
                n == IF metrics.request_count >= 1 THEN metrics.request_count ELSE 1
            IN  /\ metrics = NewMetrics => v = ZeroMetrics
                /\ 2 * Abs(8 * n * v.avg_latency_ms - 100 * metrics.total_latency)
                       <= 8 * n ]_vars

\* get_metrics was called on the collector before any request was recorded
C32_Witness ==
    /\ snapshot.taken
    /\ snapshot.after = << >>
    /\ metrics = NewMetrics
    /\ snapshot.value.total_requests = 0
    /\ snapshot.value.avg_latency_ms = 0
    /\ snapshot.value.success_rate = 0

-----------------------------------------------------------------------------
(* The requests of one call *)

Payloads(c) == { requests[c][k].json : k \in 1..Len(requests[c]) }

\* C33: a call of process_query makes between 0 and 3 POST requests: none
\* exactly when validation rejected the query, otherwise as many as the
\* number of the attempt that succeeded, or 3 when every attempt failed; no
\* POST follows a successful attempt, and all POSTs of the call carry the
\* same model, prompt, temperature and max_tokens.
C33_PostCount ==
    \A c \in CallIds :
        LET posts == EventsOf(c, "post")
            oks   == EventsOf(c, "ok")
            n     == Len(requests[c])
        IN  /\ n \in 0..3
            /\ Len(posts) = n
            /\ \A k \in 1..n : posts[k].attempt = k
            /\ Len(oks) <= 1
            /\ Len(oks) = 1 =>
                   /\ oks[1].attempt = n
                   /\ trace[c][Len(trace[c])].ev = "ok"
                   /\ Len(EventsOf(c, "fail")) = n - 1
            /\ pc[c] \in Terminal =>
                   /\ n = 0 <=> pc[c] = "rejected"
                   /\ (pc[c] # "rejected" /\ Len(oks) = 0) =>
                          n = 3 /\ Len(EventsOf(c, "fail")) = 3
            /\ Cardinality(Payloads(c)) <= 1
            /\ \A p \in Payloads(c) :
                   /\ p.model = config.model_name
                   /\ p.prompt = full_prompt[c]
                   /\ p.temperature = config.temperature
                   /\ p.max_tokens = config.max_tokens

\* the second attempt succeeded after a failed first one: two POSTs
C33_Witness ==
    \E c \in CallIds :
        /\ pc[c] = "succeeded"
        /\ Len(requests[c]) = 2
        /\ EventsOf(c, "ok")[1].attempt = 2
        /\ requests[c][1].json = requests[c][2].json

-----------------------------------------------------------------------------
(* A response of blanks *)

\* a non-empty text of whitespace characters only
OnlyWhitespace(text) ==
    /\ text # << >>
    /\ \A i \in 1..Len(text) : text[i].ch \in Whitespace

\* C34: when the first response is a successful one whose text is
\* whitespace only, generate returns the empty string after that one attempt
\* (no further request, no failure, no backoff sleep), and process_query
\* ends the call with an error result.
C34_WhitespaceTextFails ==
    \A c \in CallIds :
        (/\ Len(responses[c]) >= 1
         /\ HasText(responses[c][1])
         /\ OnlyWhitespace(TextOf(responses[c][1]))) =>
            /\ Len(responses[c]) = 1
            /\ Len(requests[c]) = 1
            /\ generated[c] = [kind |-> "return", value |-> << >>, exc |-> NoException]
            /\ EventsOf(c, "fail") = << >>
            /\ EventsOf(c, "sleep") = << >>
            /\ now[c] = 0
            /\ pc[c] \in {"returned", "failed"}
            /\ pc[c] = "failed" =>
                   /\ result[c].status = "error"
                   /\ result[c].error = << "Empty response from LLM" >>

\* the call failed on a first response whose text is one blank
C34_Witness ==
    \E c \in CallIds :
        /\ pc[c] = "failed"
        /\ Len(responses[c]) = 1
        /\ HasText(responses[c][1])
        /\ TextOf(responses[c][1]) = << Run(" ", 1) >>
        /\ generated[c].kind = "return"
        /\ result[c].status = "error"

-----------------------------------------------------------------------------
(* A /chat query of blanks *)

\* C35: a /chat request whose query passes the schema and is whitespace only
\* reaches process_query as the empty string, is rejected there without any
\* request to the backend, is recorded once, as an error, and is answered
\* with the 500 of a failed query, not with a 400.
C35_BlankChatQuery ==
    /\ \A c \in CallIds :
           (chat[c] = "handling" /\ OnlyWhitespace(raw_query[c])) =>
               /\ SchemaValid(raw_query[c])
               /\ pc[c] \in {"idle", "validating", "rejected"}
               /\ pc[c] # "idle" => user_query[c] = << >>
               /\ requests[c] = << >> /\ trace[c] = << >>
               /\ generated[c].kind = "none"
    /\ Len(recorded) = Len(handled)
    /\ \A i \in 1..Len(handled) :
           OnlyWhitespace(handled[i].query) =>
               /\ handled[i].result.status = "error"
               /\ handled[i].result.query = << >>
               /\ handled[i].result.error =
                      << "Invalid query: must be non-empty string" >>
               /\ recorded[i].error
               /\ handled[i].http.status = 500
               /\ handled[i].http.detail = "Failed to process query. Please try again."

\* a request with the query " " was answered 500 and counted as an error
C35_Witness ==
    /\ Len(handled) = 1
    /\ handled[1].query = << Run(" ", 1) >>
    /\ handled[1].http.status = 500
    /\ metrics.request_count = 1
    /\ metrics.error_count = 1

-----------------------------------------------------------------------------
(* The stored latency samples *)

RECURSIVE SumSeq(_)
SumSeq(s) == IF s = << >> THEN 0 ELSE Head(s) + SumSeq(Tail(s))

IsPrefix(s, t) == Len(s) <= Len(t) /\ SubSeq(t, 1, Len(s)) = s

\* the samples of collector m are the latencies of the calls, in call order,
\* as many as request_count, and total_latency is their sum
SamplesMatch(m, calls) ==
    /\ Len(m.request_latencies) = m.request_count
    /\ m.total_latency = SumSeq(m.request_latencies)
    /\ Len(m.request_latencies) = Len(calls)
    /\ \A i \in 1..Len(calls) : m.request_latencies[i] = calls[i].latency_ms

\* C36: whenever all record_request calls made so far have returned, the
\* number of stored latency samples is request_count, total_latency is the
\* sum of the samples and the samples are the latencies of the calls in call
\* order; no step removes or changes a stored sample.
C36_SamplesKept ==
    [][ /\ Quiet => SamplesMatch(metrics, recorded)
        /\ Quiet' => SamplesMatch(metrics', recorded')
        /\ IsPrefix(metrics.request_latencies, metrics'.request_latencies) ]_vars

\* three calls returned; their latencies are stored in the order of the calls
C36_Witness ==
    /\ Quiet
    /\ metrics.request_count = 3
    /\ metrics.request_latencies = << 5, 0, 1 >>
    /\ metrics.total_latency = 6

-----------------------------------------------------------------------------
(* Termination *)

InGenerate(c) == pc[c] \in {"generating", "awaiting", "backoff"}

GenerateOver(c) ==
    \/ pc[c] = "returned" /\ generated[c].kind = "return"
    \/ pc[c] = "raised" /\ generated[c].kind = "raise"

\* C37: when every attempt ends (with a response, an error or the timeout),
\* a call of generate makes at most 3 attempts and at most 2 backoff sleeps
\* and ends, with a returned value or with the error of the used-up
\* attempts; and every started call of process_query reaches Rejected,
\* Failed or Succeeded.
C37_Terminates ==
    /\ [](\A c \in CallIds : /\ Len(EventsOf(c, "post")) <= 3
                             /\ Len(EventsOf(c, "sleep")) <= 2)
    /\ \A c \in CallIds :
           /\ InGenerate(c) ~> GenerateOver(c)
           /\ (pc[c] = "validating") ~> (pc[c] \in Terminal)

\* a call that used three attempts and two backoff sleeps has ended
C37_Witness ==
    \E c \in CallIds :
        /\ pc[c] \in Terminal
        /\ Len(EventsOf(c, "post")) = 3
        /\ Len(EventsOf(c, "sleep")) = 2
        /\ now[c] = 3

=============================================================================
